---------------------------- MODULE Spec2Model ----------------------------
(***************************************************************************)
(* A model of src/App.tsx: the voice assistant's command interpreter       *)
(* (handleCommand), its dialogue-turn sequencing (speech recognition       *)
(* objects created by the initialisation effect, speak and the             *)
(* speech-synthesis queue, the history log) and the microphone permission  *)
(* handling.                                                               *)
(*                                                                         *)
(* A string is a sequence of one-character strings, so that the substring  *)
(* tests of handleCommand are computed character by character.  React      *)
(* state is one variable per useState cell; a closure created in a render  *)
(* is the record of the state values that render captured.                 *)
(***************************************************************************)
EXTENDS Integers, Sequences, FiniteSets, TLC

(***************************************************************************)
(* Bounds of the model.                                                    *)
(***************************************************************************)
MaxRecs == 3        \* recognition objects the initialisation effect may create
MaxTurns == 2       \* finalized utterances
MaxTicks == 1       \* seconds the clock may advance
MaxPrompts == 1     \* permission-denied prompts spoken by toggleListening
MaxRequests == 1    \* getUserMedia calls of requestMicrophonePermission pending at once
MaxWords == 2       \* fragments joined into one transcript of the corpus

(***************************************************************************)
(* JavaScript strings.                                                     *)
(***************************************************************************)
UpperCase ==
    <<"A","B","C","D","E","F","G","H","I","J","K","L","M",
      "N","O","P","Q","R","S","T","U","V","W","X","Y","Z">>
LowerCase ==
    <<"a","b","c","d","e","f","g","h","i","j","k","l","m",
      "n","o","p","q","r","s","t","u","v","w","x","y","z">>
Digits == <<"0","1","2","3","4","5","6","7","8","9">>

Range(s) == {s[i] : i \in DOMAIN s}

toLowerCaseChar(c) ==
    IF \E i \in DOMAIN UpperCase : UpperCase[i] = c
    THEN LowerCase[CHOOSE i \in DOMAIN UpperCase : UpperCase[i] = c]
    ELSE c

\* String.prototype.toLowerCase
RECURSIVE toLowerCase(_)
toLowerCase(s) ==
    IF s = <<>> THEN <<>>
    ELSE <<toLowerCaseChar(Head(s))>> \o toLowerCase(Tail(s))

\* does pat occur in s at index i (1-based)
matchesAt(s, pat, i) ==
    /\ i >= 1
    /\ i + Len(pat) - 1 <= Len(s)
    /\ SubSeq(s, i, i + Len(pat) - 1) = pat

\* String.prototype.includes
includes(s, pat) == \E i \in 1..(Len(s) + 1) : matchesAt(s, pat, i)

\* the string with the Len(pat) characters at index i replaced by nothing
removeAt(s, i, n) == SubSeq(s, 1, i - 1) \o SubSeq(s, i + n, Len(s))

\* String.prototype.replace(pat, '') with a string pattern: the first
\* occurrence only; the string itself when there is none
replaceString(s, pat) ==
    IF includes(s, pat)
    THEN LET i == CHOOSE k \in 1..(Len(s) + 1) :
                      /\ matchesAt(s, pat, k)
                      /\ \A j \in 1..(k - 1) : ~matchesAt(s, pat, j)
         IN removeAt(s, i, Len(pat))
    ELSE s

\* String.prototype.replace(/a1|a2|.../i, ''): no g flag, so the leftmost
\* position at which some alternative matches, and at that position the
\* first alternative that matches; the i flag compares case-insensitively
firstHit(low, alts) ==
    CHOOSE k \in 1..(Len(low) + 1) :
        /\ \E a \in DOMAIN alts : matchesAt(low, alts[a], k)
        /\ \A j \in 1..(k - 1) : \A a \in DOMAIN alts : ~matchesAt(low, alts[a], j)

firstAlternative(low, alts, i) ==
    CHOOSE b \in DOMAIN alts :
        /\ matchesAt(low, alts[b], i)
        /\ \A d \in 1..(b - 1) : ~matchesAt(low, alts[d], i)

replaceFirstOf(s, low, alts) ==
    IF \E a \in DOMAIN alts : includes(low, alts[a])
    THEN removeAt(s, firstHit(low, alts),
                  Len(alts[firstAlternative(low, alts, firstHit(low, alts))]))
    ELSE s

replaceRegExp(s, alts) == replaceFirstOf(s, toLowerCase(s), alts)

WhiteSpace == {" "}

\* String.prototype.trim
trim(s) ==
    LET keep == {i \in 1..Len(s) : s[i] \notin WhiteSpace}
    IN IF keep = {} THEN <<>>
       ELSE SubSeq(s, CHOOSE i \in keep : \A j \in keep : i <= j,
                      CHOOSE i \in keep : \A j \in keep : i >= j)

\* the characters encodeURIComponent leaves alone
Unreserved ==
    Range(UpperCase) \cup Range(LowerCase) \cup Range(Digits)
        \cup {"-", "_", ".", "!", "~", "*", "'", "(", ")"}

\* the percent-encoding of the other characters a transcript is made of
encodeChar(c) ==
    IF c \in Unreserved THEN <<c>>
    ELSE IF c = " " THEN <<"%","2","0">>
    ELSE IF c = "&" THEN <<"%","2","6">>
    ELSE IF c = "+" THEN <<"%","2","B">>
    ELSE IF c = "?" THEN <<"%","3","F">>
    ELSE <<"%","?","?">>

RECURSIVE encodeURIComponent(_)
encodeURIComponent(s) ==
    IF s = <<>> THEN <<>>
    ELSE encodeChar(Head(s)) \o encodeURIComponent(Tail(s))


(***************************************************************************)
(* handleCommand.  A closure c is what the render that created the handler *)
(* captured: c.isMuted and c.recognition (0 is null).  The result lists    *)
(* the calls the branch makes, in order: window.open (opens), speak        *)
(* (speaks), setIsDarkMode (darkMode), setIsMuted (muted) and              *)
(* recognition.stop (stops).  A spoken text or a URL built from a template *)
(* literal is the template and the string spliced into it.                 *)
(***************************************************************************)
Text(template, arg) == [text |-> template, arg |-> arg]
Url(base, arg) == [base |-> base, arg |-> arg]

NoCalls ==
    [branch |-> "none", opens |-> <<>>, speaks |-> <<>>,
     darkMode |-> <<>>, muted |-> <<>>, stops |-> <<>>]

greet(message, c) ==
    [NoCalls EXCEPT
        !.branch = "greet",
        !.speaks = <<Text("Hello! I'm your AI assistant. How may I help you today?", <<>>)>>]

\* displayMode deciding by the absence of "light mode"
displayModeUnlessLight(message, c) ==
    [NoCalls EXCEPT
        !.branch = "display mode",
        !.darkMode = <<~includes(message, <<"l","i","g","h","t"," ","m","o","d","e">>)>>,
        !.speaks = <<Text(IF ~includes(message, <<"l","i","g","h","t"," ","m","o","d","e">>)
                          THEN "Switching to dark mode"
                          ELSE "Switching to light mode", <<>>)>>]

displayMode(message, c) ==
    [NoCalls EXCEPT
        !.branch = "display mode",
        !.darkMode = <<includes(message, <<"d","a","r","k"," ","m","o","d","e">>)>>,
        !.speaks = <<Text(IF includes(message, <<"d","a","r","k"," ","m","o","d","e">>)
                          THEN "Switching to dark mode"
                          ELSE "Switching to light mode", <<>>)>>]

music(message, c) ==
    [NoCalls EXCEPT
        !.branch = "music",
        !.opens = <<Url("https://open.spotify.com", <<>>)>>,
        !.speaks = <<Text("Opening Spotify for you", <<>>)>>]

calculator(message, c) ==
    [NoCalls EXCEPT
        !.branch = "calculator",
        !.opens = <<Url("https://www.google.com/search?q=calculator", <<>>)>>,
        !.speaks = <<Text("Opening calculator", <<>>)>>]

openGoogle(message, c) ==
    [NoCalls EXCEPT
        !.branch = "open google",
        !.opens = <<Url("https://google.com", <<>>)>>,
        !.speaks = <<Text("Opening Google in a new tab", <<>>)>>]

openYoutube(message, c) ==
    [NoCalls EXCEPT
        !.branch = "open youtube",
        !.opens = <<Url("https://youtube.com", <<>>)>>,
        !.speaks = <<Text("Opening YouTube in a new tab", <<>>)>>]

openFacebook(message, c) ==
    [NoCalls EXCEPT
        !.branch = "open facebook",
        !.opens = <<Url("https://facebook.com", <<>>)>>,
        !.speaks = <<Text("Opening Facebook in a new tab", <<>>)>>]

\* the spliced clock text is left out of the template's argument
time(message, c) ==
    [NoCalls EXCEPT
        !.branch = "time",
        !.speaks = <<Text("The current time is ${time}", <<>>)>>]

date(message, c) ==
    [NoCalls EXCEPT
        !.branch = "date",
        !.speaks = <<Text("Today is ${date}", <<>>)>>]

\* whatIs without the trim
whatIsUntrimmed(message, c) ==
    LET searchQuery ==
            replaceRegExp(message, <<<<"w","h","a","t"," ","i","s">>,
                                     <<"w","h","o"," ","i","s">>,
                                     <<"w","h","a","t"," ","a","r","e">>>>)
    IN [NoCalls EXCEPT
        !.branch = "what is",
        !.opens = <<Url("https://www.google.com/search?q=",
                        encodeURIComponent(searchQuery))>>,
        !.speaks = <<Text("I've found some information about ${searchQuery}. Opening search results.",
                          searchQuery)>>]

whatIs(message, c) ==
    LET searchQuery ==
            trim(replaceRegExp(message, <<<<"w","h","a","t"," ","i","s">>,
                                          <<"w","h","o"," ","i","s">>,
                                          <<"w","h","a","t"," ","a","r","e">>>>))
    IN [NoCalls EXCEPT
        !.branch = "what is",
        !.opens = <<Url("https://www.google.com/search?q=",
                        encodeURIComponent(searchQuery))>>,
        !.speaks = <<Text("I've found some information about ${searchQuery}. Opening search results.",
                          searchQuery)>>]

wikipedia(message, c) ==
    LET searchQuery == trim(replaceString(message, <<"w","i","k","i","p","e","d","i","a">>))
    IN [NoCalls EXCEPT
        !.branch = "wikipedia",
        !.opens = <<Url("https://en.wikipedia.org/wiki/",
                        encodeURIComponent(searchQuery))>>,
        !.speaks = <<Text("Opening Wikipedia article about ${searchQuery}", searchQuery)>>]

weather(message, c) ==
    LET stripped == trim(replaceString(message, <<"w","e","a","t","h","e","r">>))
        location == IF stripped = <<>>
                    THEN <<"c","u","r","r","e","n","t"," ","l","o","c","a","t","i","o","n">>
                    ELSE stripped
    IN [NoCalls EXCEPT
        !.branch = "weather",
        !.opens = <<Url("https://www.google.com/search?q=weather+",
                        encodeURIComponent(location))>>,
        !.speaks = <<Text("Checking weather for ${location}", location)>>]

help(message, c) ==
    [NoCalls EXCEPT
        !.branch = "help",
        !.speaks = <<Text("I can help you with various tasks. Here are some examples: ...", <<>>)>>]

stop(message, c) ==
    [NoCalls EXCEPT
        !.branch = "stop",
        !.stops = IF c.recognition # 0 THEN <<c.recognition>> ELSE <<>>,
        !.speaks = <<Text("Stopping voice recognition", <<>>)>>]

mute(message, c) ==
    [NoCalls EXCEPT
        !.branch = "mute",
        !.muted = <<~c.isMuted>>,
        !.speaks = <<Text(IF c.isMuted THEN "Sound enabled" ELSE "Sound disabled", <<>>)>>]

fallback(message, c) ==
    [NoCalls EXCEPT
        !.branch = "fallback",
        !.opens = <<Url("https://www.google.com/search?q=", encodeURIComponent(message))>>,
        !.speaks = <<Text("I'm searching for information about your request", <<>>)>>]

\* the conditions of the if / else-if chain
isGreet(message) ==
    \/ includes(message, <<"h","e","y">>)
    \/ includes(message, <<"h","e","l","l","o">>)
    \/ includes(message, <<"h","i">>)

isDisplayMode(message) ==
    \/ includes(message, <<"d","a","r","k"," ","m","o","d","e">>)
    \/ includes(message, <<"l","i","g","h","t"," ","m","o","d","e">>)

isMusic(message) ==
    \/ includes(message, <<"p","l","a","y"," ","m","u","s","i","c">>)
    \/ includes(message, <<"s","p","o","t","i","f","y">>)

isCalculator(message) == includes(message, <<"c","a","l","c","u","l","a","t","o","r">>)

isOpenGoogle(message) == includes(message, <<"o","p","e","n"," ","g","o","o","g","l","e">>)

isOpenYoutube(message) == includes(message, <<"o","p","e","n"," ","y","o","u","t","u","b","e">>)

isOpenFacebook(message) == includes(message, <<"o","p","e","n"," ","f","a","c","e","b","o","o","k">>)

isTime(message) == includes(message, <<"t","i","m","e">>)

isDate(message) == includes(message, <<"d","a","t","e">>)

isWhatIs(message) ==
    \/ includes(message, <<"w","h","a","t"," ","i","s">>)
    \/ includes(message, <<"w","h","o"," ","i","s">>)
    \/ includes(message, <<"w","h","a","t"," ","a","r","e">>)

isWikipedia(message) == includes(message, <<"w","i","k","i","p","e","d","i","a">>)

isWeather(message) == includes(message, <<"w","e","a","t","h","e","r">>)

isHelp(message) ==
    \/ includes(message, <<"h","e","l","p">>)
    \/ includes(message, <<"w","h","a","t"," ","c","a","n"," ","y","o","u"," ","d","o">>)

isStop(message) ==
    \/ includes(message, <<"s","t","o","p"," ","l","i","s","t","e","n","i","n","g">>)
    \/ includes(message, <<"s","t","o","p">>)

isMute(message) ==
    \/ includes(message, <<"m","u","t","e">>)
    \/ includes(message, <<"u","n","m","u","t","e">>)

\* handleCommand with the what-is test moved before the time test
handleCommandWhatIsFirst(message, c) ==
    IF isGreet(message) THEN greet(message, c)
    ELSE IF isDisplayMode(message) THEN displayMode(message, c)
    ELSE IF isMusic(message) THEN music(message, c)
    ELSE IF isCalculator(message) THEN calculator(message, c)
    ELSE IF isOpenGoogle(message) THEN openGoogle(message, c)
    ELSE IF isOpenYoutube(message) THEN openYoutube(message, c)
    ELSE IF isOpenFacebook(message) THEN openFacebook(message, c)
    ELSE IF isWhatIs(message) THEN whatIs(message, c)
    ELSE IF isTime(message) THEN time(message, c)
    ELSE IF isDate(message) THEN date(message, c)
    ELSE IF isWikipedia(message) THEN wikipedia(message, c)
    ELSE IF isWeather(message) THEN weather(message, c)
    ELSE IF isHelp(message) THEN help(message, c)
    ELSE IF isStop(message) THEN stop(message, c)
    ELSE IF isMute(message) THEN mute(message, c)
    ELSE fallback(message, c)

handleCommand(message, c) ==
    IF isGreet(message) THEN greet(message, c)
    ELSE IF isDisplayMode(message) THEN displayMode(message, c)
    ELSE IF isMusic(message) THEN music(message, c)
    ELSE IF isCalculator(message) THEN calculator(message, c)
    ELSE IF isOpenGoogle(message) THEN openGoogle(message, c)
    ELSE IF isOpenYoutube(message) THEN openYoutube(message, c)
    ELSE IF isOpenFacebook(message) THEN openFacebook(message, c)
    ELSE IF isTime(message) THEN time(message, c)
    ELSE IF isDate(message) THEN date(message, c)
    ELSE IF isWhatIs(message) THEN whatIs(message, c)
    ELSE IF isWikipedia(message) THEN wikipedia(message, c)
    ELSE IF isWeather(message) THEN weather(message, c)
    ELSE IF isHelp(message) THEN help(message, c)
    ELSE IF isStop(message) THEN stop(message, c)
    ELSE IF isMute(message) THEN mute(message, c)
    ELSE fallback(message, c)

(***************************************************************************)
(* The state.                                                              *)
(***************************************************************************)
VARIABLES
    micPermission,  \* useState: "prompt", "granted" or "denied"
    isMuted,        \* useState
    isDarkMode,     \* useState
    isListening,    \* useState
    isProcessing,   \* useState
    history,        \* useState: the log of CommandHistory entries
    recognition,    \* useState: the current recognition object, 0 is null
    recs,           \* the SpeechRecognition objects created so far
    permCheck,      \* the getUserMedia call made on mount, or its outcome
    permRequests,   \* pending getUserMedia calls of requestMicrophonePermission
    pendingSpeak,   \* speak calls waiting in their 100 ms delay, oldest first
    synthQueue,     \* window.speechSynthesis: its queue, the head is playing
    cancelled,      \* cancelled utterances whose end/error event is to come
    now,            \* the clock, in seconds of local time
    turns,          \* finalized utterances interpreted so far
    prompts,        \* permission-denied prompts spoken so far
    lastCmd         \* the last handleCommand call and the calls it made

vars ==
    <<micPermission, isMuted, isDarkMode, isListening, isProcessing, history,
      recognition, recs, permCheck, permRequests, pendingSpeak, synthQueue,
      cancelled, now, turns, prompts, lastCmd>>

\* the state as one record, so that a handler is a function of the state
State ==
    [micPermission |-> micPermission, isMuted |-> isMuted,
     isDarkMode |-> isDarkMode, isListening |-> isListening,
     isProcessing |-> isProcessing, history |-> history,
     recognition |-> recognition, recs |-> recs, permCheck |-> permCheck,
     permRequests |-> permRequests, pendingSpeak |-> pendingSpeak,
     synthQueue |-> synthQueue, cancelled |-> cancelled, now |-> now,
     turns |-> turns, prompts |-> prompts, lastCmd |-> lastCmd]

Becomes(s) ==
    /\ micPermission' = s.micPermission
    /\ isMuted' = s.isMuted
    /\ isDarkMode' = s.isDarkMode
    /\ isListening' = s.isListening
    /\ isProcessing' = s.isProcessing
    /\ history' = s.history
    /\ recognition' = s.recognition
    /\ recs' = s.recs
    /\ permCheck' = s.permCheck
    /\ permRequests' = s.permRequests
    /\ pendingSpeak' = s.pendingSpeak
    /\ synthQueue' = s.synthQueue
    /\ cancelled' = s.cancelled
    /\ now' = s.now
    /\ turns' = s.turns
    /\ prompts' = s.prompts
    /\ lastCmd' = s.lastCmd

(***************************************************************************)
(* The clock.  toLocaleTimeString gives the time of day, to the second.    *)
(***************************************************************************)
SecondsPerDay == 86400
SecondsPerHour == 3600
\* the session starts one second before local midnight
StartTime == SecondsPerDay - 1

toLocaleTimeString(t) == t % SecondsPerDay
getHours(t) == (t % SecondsPerDay) \div SecondsPerHour

(***************************************************************************)
(* The closures of a render: what its handlers read of the state.          *)
(***************************************************************************)
Closure(s) == [isMuted |-> s.isMuted, recognition |-> s.recognition]

\* setHistory putting the entry first
setHistoryFirst(prev, entry) == <<entry>> \o prev

\* setHistory(prev => [...prev, entry])
setHistory(prev, entry) == Append(prev, entry)

HistoryEntry(type, message, t, turn) ==
    [type |-> type, message |-> message,
     timestamp |-> toLocaleTimeString(t), turn |-> turn, at |-> t]

(***************************************************************************)
(* speak, up to its await: the mute test, setIsProcessing(true) and        *)
(* speechSynthesis.cancel(), which empties the queue; the call then waits  *)
(* 100 ms.  turn is the utterance the text answers, 0 for an announcement. *)
(***************************************************************************)
speak(s, text, turn, c) ==
    IF c.isMuted THEN s
    ELSE [s EXCEPT
            !.isProcessing = TRUE,
            !.cancelled = @ + Len(s.synthQueue),
            !.synthQueue = <<>>,
            !.pendingSpeak = Append(@, [text |-> text, turn |-> turn])]

wishMe(s, c) ==
    IF c.isMuted THEN s
    ELSE LET hour == getHours(s.now)
         IN IF hour >= 0 /\ hour < 12
            THEN speak(s, Text("Good Morning! I'm your virtual assistant. How may I help you today?", <<>>), 0, c)
            ELSE IF hour >= 12 /\ hour < 17
            THEN speak(s, Text("Good Afternoon! I'm your virtual assistant. How may I help you today?", <<>>), 0, c)
            ELSE speak(s, Text("Good Evening! I'm your virtual assistant. How may I help you today?", <<>>), 0, c)

(***************************************************************************)
(* A SpeechRecognition object: its phase ("idle", "starting" after start(),*)
(* "listening" after onstart, "stopping" after stop(), "ending" after an   *)
(* error), whether onstart has fired and onend not yet (on), whether the   *)
(* session has given its final result (final; continuous is false), and    *)
(* the closure its handlers captured.                                      *)
(***************************************************************************)
NewRecognition(c) ==
    [phase |-> "idle", on |-> FALSE, final |-> FALSE,
     isMuted |-> c.isMuted, recognition |-> c.recognition]

\* the body of the effect that initialises speech recognition, once
\* micPermission is "granted"
initRecognition(s) ==
    LET c == Closure(s)
        s1 == [s EXCEPT !.recs = Append(@, NewRecognition(c)),
                        !.recognition = Len(s.recs) + 1]
        s2 == IF ~c.isMuted
              THEN speak(s1, Text("Initializing Advanced Virtual Assistant", <<>>), 0, c)
              ELSE s1
    IN wishMe(s2, c)

\* useEffect(..., [micPermission, isMuted]): after a handler took the state
\* from prev to s
useEffect(prev, s) ==
    IF s.micPermission = prev.micPermission /\ s.isMuted = prev.isMuted
    THEN s
    ELSE IF s.micPermission # "granted" THEN s
    ELSE initRecognition(s)

NoCmd ==
    [turn |-> 0, message |-> <<>>, closure |-> [isMuted |-> FALSE, recognition |-> 0],
     calls |-> NoCalls, wasMuted |-> FALSE, nowMuted |-> FALSE]

InitState ==
    [micPermission |-> "prompt", isMuted |-> FALSE, isDarkMode |-> TRUE,
     isListening |-> FALSE, isProcessing |-> FALSE, history |-> <<>>,
     recognition |-> 0, recs |-> <<>>, permCheck |-> "pending",
     permRequests |-> 0, pendingSpeak |-> <<>>, synthQueue |-> <<>>,
     cancelled |-> 0, now |-> StartTime, turns |-> 0, prompts |-> 0,
     lastCmd |-> NoCmd]

Is(s) ==
    /\ micPermission = s.micPermission
    /\ isMuted = s.isMuted
    /\ isDarkMode = s.isDarkMode
    /\ isListening = s.isListening
    /\ isProcessing = s.isProcessing
    /\ history = s.history
    /\ recognition = s.recognition
    /\ recs = s.recs
    /\ permCheck = s.permCheck
    /\ permRequests = s.permRequests
    /\ pendingSpeak = s.pendingSpeak
    /\ synthQueue = s.synthQueue
    /\ cancelled = s.cancelled
    /\ now = s.now
    /\ turns = s.turns
    /\ prompts = s.prompts
    /\ lastCmd = s.lastCmd

Init == Is(InitState)

(***************************************************************************)
(* The methods of a recognition object.                                    *)
(***************************************************************************)
\* recognition.start() throws InvalidStateError unless the object is idle
canStart(s, r) == s.recs[r].phase = "idle"

start(s, r) == [s EXCEPT !.recs[r].phase = "starting"]

\* recognition.stop(): nothing to stop unless a session is under way
stopRecognition(s, r) ==
    IF s.recs[r].phase \in {"starting", "listening"}
    THEN [s EXCEPT !.recs[r].phase = "stopping"]
    ELSE s

RECURSIVE stopAll(_, _)
stopAll(s, rs) ==
    IF rs = <<>> THEN s ELSE stopAll(stopRecognition(s, Head(rs)), Tail(rs))

RECURSIVE speakAll(_, _, _, _)
speakAll(s, texts, turn, c) ==
    IF texts = <<>> THEN s
    ELSE speakAll(speak(s, Head(texts), turn, c), Tail(texts), turn, c)

\* the last value a sequence of calls of a state setter leaves
setState(old, args) == IF args = <<>> THEN old ELSE args[Len(args)]

(***************************************************************************)
(* The handlers of recognition object r.                                   *)
(***************************************************************************)
onstart(s, r) ==
    [s EXCEPT !.recs[r].phase = "listening",
              !.recs[r].on = TRUE,
              !.isListening = TRUE]

onend(s, r) ==
    [s EXCEPT !.recs[r].phase = "idle",
              !.recs[r].on = FALSE,
              !.recs[r].final = FALSE,
              !.isListening = FALSE]

onerror(s, r, error) ==
    [s EXCEPT !.recs[r].phase = "ending",
              !.micPermission = IF error = "not-allowed" THEN "denied" ELSE @,
              !.isListening = FALSE]

\* what the handlers of a recognition object captured
closureOf(rec) == [isMuted |-> rec.isMuted, recognition |-> rec.recognition]

\* the calls of handleCommand, then newRecognition.stop(); s is the state
\* when the result arrived and logged the state with the user entry added
commanded(s, logged, r, message, c, calls) ==
    [stopRecognition(
         speakAll(
             stopAll([logged EXCEPT !.isDarkMode = setState(@, calls.darkMode),
                                    !.isMuted = setState(@, calls.muted)],
                     calls.stops),
             calls.speaks, s.turns + 1, c),
         r)
     EXCEPT
        !.recs[r].final = TRUE,
        !.turns = s.turns + 1,
        !.lastCmd = [turn |-> s.turns + 1, message |-> message, closure |-> c,
                     calls |-> calls, wasMuted |-> s.isMuted,
                     nowMuted |-> setState(s.isMuted, calls.muted)]]

interpret(s, logged, r, message, c) ==
    commanded(s, logged, r, message, c, handleCommand(message, c))

\* onresult with a final result: the user entry, handleCommand (with the
\* lower-cased transcript) up to the await inside speak, then stop()
onresult(s, r, transcript) ==
    interpret(s,
              [s EXCEPT !.history =
                   setHistory(@, HistoryEntry("user", transcript, s.now, s.turns + 1))],
              r, toLowerCase(transcript), closureOf(s.recs[r]))

(***************************************************************************)
(* The microphone permission.                                              *)
(***************************************************************************)
\* requestMicrophonePermission, up to its await
requestMicrophonePermission(s) == [s EXCEPT !.permRequests = @ + 1]

\* the getUserMedia call made on mount settles: only a rejection named
\* NotAllowedError or PermissionDeniedError sets the permission
permissionChecked(s, outcome) ==
    [s EXCEPT !.permCheck = outcome,
              !.micPermission =
                  IF outcome = "resolved" THEN "granted"
                  ELSE IF outcome \in {"NotAllowedError", "PermissionDeniedError"}
                  THEN "denied"
                  ELSE @]

\* the getUserMedia call of requestMicrophonePermission settles
permissionRequested(s, resolved) ==
    [s EXCEPT !.permRequests = @ - 1,
              !.micPermission = IF resolved THEN "granted" ELSE "denied"]

(***************************************************************************)
(* toggleListening, and what it did.                                       *)
(***************************************************************************)
toggleDid(s) ==
    IF s.micPermission = "denied" THEN "request"
    ELSE IF s.recognition = 0 THEN "nothing"
    ELSE IF s.isListening THEN "stop"
    ELSE IF canStart(s, s.recognition) THEN "start"
    ELSE "throw"

\* toggleListening without its permission test
toggleListeningUngated(s) ==
    IF s.recognition = 0 THEN s
    ELSE IF s.isListening THEN stopRecognition(s, s.recognition)
    ELSE IF canStart(s, s.recognition) THEN start(s, s.recognition)
    ELSE s

toggleListening(s) ==
    LET c == Closure(s)
    IN IF s.micPermission = "denied"
       THEN requestMicrophonePermission(
                IF ~c.isMuted
                THEN [speak(s, Text("Please grant microphone permission to use voice commands", <<>>), 0, c)
                         EXCEPT !.prompts = @ + 1]
                ELSE s)
       ELSE IF s.recognition = 0 THEN s
       ELSE IF s.isListening THEN stopRecognition(s, s.recognition)
       ELSE IF canStart(s, s.recognition) THEN start(s, s.recognition)
       ELSE s

(***************************************************************************)
(* speak after its 100 ms delay, and the synthesis engine's events.        *)
(***************************************************************************)
\* speak logging its entry twice
speakResumeTwice(s) ==
    LET u == Head(s.pendingSpeak)
        e == HistoryEntry("assistant", u.text, s.now, u.turn)
    IN [s EXCEPT !.pendingSpeak = Tail(@),
                 !.synthQueue = Append(@, u),
                 !.history = setHistory(setHistory(@, e), e)]

\* speechSynthesis.speak(utterance), then the assistant entry
speakResume(s) ==
    LET u == Head(s.pendingSpeak)
    IN [s EXCEPT !.pendingSpeak = Tail(@),
                 !.synthQueue = Append(@, u),
                 !.history = setHistory(@, HistoryEntry("assistant", u.text, s.now, u.turn))]

\* utterance.onend and utterance.onerror of the utterance that is playing
utteranceDone(s) ==
    [s EXCEPT !.synthQueue = Tail(@), !.isProcessing = FALSE]

\* the end or error event of an utterance that cancel() removed
utteranceCancelled(s) ==
    [s EXCEPT !.cancelled = @ - 1, !.isProcessing = FALSE]

(***************************************************************************)
(* What the recognition engine may deliver as one finalized transcript: in *)
(* the dialogue, one of two utterances; for the command interpreter, every *)
(* transcript of at most MaxWords of the fragments below, joined by spaces.*)
(***************************************************************************)
Utterances ==
    { <<"M","u","t","e">>, <<"s","t","o","p">> }

Words ==
    <<<<"h","e","l","l","o">>,
      <<"H","e","y">>,
      <<"t","h","i","s">>,
      <<"d","a","r","k"," ","m","o","d","e">>,
      <<"l","i","g","h","t"," ","m","o","d","e">>,
      <<"s","p","o","t","i","f","y">>,
      <<"c","a","l","c","u","l","a","t","o","r">>,
      <<"o","p","e","n"," ","g","o","o","g","l","e">>,
      <<"o","p","e","n"," ","y","o","u","t","u","b","e">>,
      <<"o","p","e","n"," ","f","a","c","e","b","o","o","k">>,
      <<"t","i","m","e">>,
      <<"d","a","t","e">>,
      <<"W","h","a","t"," ","i","s">>,
      <<"w","h","o"," ","i","s">>,
      <<"w","h","a","t"," ","a","r","e">>,
      <<"w","i","k","i","p","e","d","i","a">>,
      <<"w","e","a","t","h","e","r">>,
      <<"h","e","l","p">>,
      <<"s","t","o","p">>,
      <<"m","u","t","e">>,
      <<"x","y","z","z","y">>,
      <<"t","h","e"," ","c","a","p","i","t","a","l"," ","o","f"," ","f","r","a","n","c","e">>>>

RECURSIVE Join(_)
Join(ws) ==
    IF Len(ws) = 1 THEN ws[1]
    ELSE ws[1] \o <<" ">> \o Join(Tail(ws))

Corpus ==
    UNION { { Join([i \in 1..n |-> Words[f[i]]]) : f \in [1..n -> DOMAIN Words] }
            : n \in 1..MaxWords }

(***************************************************************************)
(* The actions: a handler, then the render and the effects it causes.      *)
(***************************************************************************)
Render(s) ==
    \E t \in {useEffect(State, s)} :
        /\ Len(t.recs) <= MaxRecs
        /\ Becomes(t)

PermissionChecked ==
    /\ permCheck = "pending"
    /\ \E outcome \in {"resolved", "NotAllowedError", "NotFoundError"} :
          Render(permissionChecked(State, outcome))

PermissionRequested ==
    /\ permRequests > 0
    /\ \E resolved \in BOOLEAN : Render(permissionRequested(State, resolved))

\* the "Grant Microphone Access" button, shown while the permission is denied
GrantButton ==
    /\ micPermission = "denied"
    /\ permRequests < MaxRequests
    /\ Render(requestMicrophonePermission(State))

\* the microphone button, disabled while isProcessing
ToggleListening ==
    /\ ~isProcessing
    /\ micPermission = "denied" =>
          /\ permRequests < MaxRequests
          /\ ~isMuted => prompts < MaxPrompts
    /\ Render(toggleListening(State))

\* the mute button: setIsMuted(!isMuted), with the isMuted of this render
MuteButton ==
    \E muted \in {~isMuted} : Render([State EXCEPT !.isMuted = muted])

\* the display mode button: setIsDarkMode(!isDarkMode)
DarkModeButton ==
    \E dark \in {~isDarkMode} : Render([State EXCEPT !.isDarkMode = dark])

OnStart ==
    \E r \in DOMAIN recs :
        /\ recs[r].phase = "starting"
        /\ Render(onstart(State, r))

OnError ==
    \E r \in DOMAIN recs, error \in {"not-allowed", "no-speech"} :
        /\ recs[r].phase \in {"starting", "listening", "stopping"}
        /\ Render(onerror(State, r, error))

OnResult(transcripts) ==
    \E r \in DOMAIN recs :
        /\ recs[r].phase \in {"listening", "stopping"}
        /\ ~recs[r].final
        /\ turns < MaxTurns
        /\ \E transcript \in transcripts : Render(onresult(State, r, transcript))

OnEnd ==
    \E r \in DOMAIN recs :
        /\ recs[r].phase \in {"listening", "stopping", "ending"}
        /\ Render(onend(State, r))

SpeakResume ==
    /\ pendingSpeak # <<>>
    /\ Render(speakResume(State))

UtteranceEnd ==
    /\ synthQueue # <<>>
    /\ Render(utteranceDone(State))

UtteranceError ==
    /\ synthQueue # <<>>
    /\ Render(utteranceDone(State))

UtteranceCancelled ==
    /\ cancelled > 0
    /\ Render(utteranceCancelled(State))

Tick ==
    /\ now < StartTime + MaxTicks
    /\ Render([State EXCEPT !.now = @ + 1])

(***************************************************************************)
(* The whole application.                                                  *)
(***************************************************************************)
Next ==
    \/ PermissionChecked
    \/ PermissionRequested
    \/ GrantButton
    \/ ToggleListening
    \/ MuteButton
    \/ DarkModeButton
    \/ OnStart
    \/ OnError
    \/ OnResult(Utterances)
    \/ OnEnd
    \/ SpeakResume
    \/ UtteranceEnd
    \/ UtteranceError
    \/ UtteranceCancelled
    \/ Tick

Spec == Init /\ [][Next]_vars

(***************************************************************************)
(* The application restricted to the events of one area, so that each part *)
(* can be explored in full.                                                *)
(***************************************************************************)
\* the dialogue: sessions, utterances and replies, with the mute button
NextDialogue ==
    \/ PermissionChecked
    \/ ToggleListening
    \/ MuteButton
    \/ OnStart
    \/ OnResult(Utterances)
    \/ OnEnd
    \/ SpeakResume
    \/ UtteranceEnd
    \/ UtteranceCancelled

SpecDialogue == Init /\ [][NextDialogue]_vars

\* the history log and its timestamps: the dialogue without the mute button,
\* with the clock and with the permission request that follows a prompt
NextHistory ==
    \/ PermissionChecked
    \/ PermissionRequested
    \/ ToggleListening
    \/ OnStart
    \/ OnResult(Utterances)
    \/ OnEnd
    \/ SpeakResume
    \/ UtteranceEnd
    \/ UtteranceCancelled
    \/ Tick

SpecHistory == Init /\ [][NextHistory]_vars

\* the microphone permission and the failures: no utterance is recognised
NextPermission ==
    \/ PermissionChecked
    \/ PermissionRequested
    \/ GrantButton
    \/ ToggleListening
    \/ MuteButton
    \/ OnStart
    \/ OnError
    \/ OnEnd
    \/ SpeakResume
    \/ UtteranceEnd
    \/ UtteranceError
    \/ UtteranceCancelled

SpecPermission == Init /\ [][NextPermission]_vars

(***************************************************************************)
(* The command interpreter on its own: one transcript of the corpus is     *)
(* interpreted in a state in which a session is listening.  The states it  *)
(* starts from are reached by the handlers from the initial state:         *)
(* Listening1 after the permission is granted, the two announcements are   *)
(* spoken and the microphone is clicked; Stale after the mute button is    *)
(* then clicked (the listening object keeps the unmuted closure);          *)
(* Listening2 after that session ends and the new object is started.       *)
(***************************************************************************)
Granted == useEffect(InitState, permissionChecked(InitState, "resolved"))
Announced == utteranceDone(utteranceDone(speakResume(speakResume(Granted))))
Listening1 == onstart(toggleListening(Announced), 1)
Stale == useEffect(Listening1, [Listening1 EXCEPT !.isMuted = TRUE])
Listening2 == onstart(toggleListening(onend(Stale, 1)), 2)

InitCommand == \E s \in {Listening1, Stale, Listening2} : Is(s)

NextCommand ==
    \/ OnResult(Corpus)
    \/ DarkModeButton
    \/ SpeakResume
    \/ OnEnd

SpecCommand == InitCommand /\ [][NextCommand]_vars


(***************************************************************************)
(* The claims about the command interpreter, under SpecCommand.            *)
(***************************************************************************)
\* w occurs in m, character by character
Contains(m, w) ==
    \E i \in 0..(Len(m) - Len(w)) : \A j \in 1..Len(w) : m[i + j] = w[j]

\* the phrases of the rules, in the order of the specification: greet,
\* display mode, music, calculator, open google, open youtube, open
\* facebook, time, date, what-is/who-is/what-are, wikipedia, weather, help,
\* stop, mute
RulePhrases ==
    << {<<"h","e","y">>, <<"h","e","l","l","o">>, <<"h","i">>},
       {<<"d","a","r","k"," ","m","o","d","e">>, <<"l","i","g","h","t"," ","m","o","d","e">>},
       {<<"p","l","a","y"," ","m","u","s","i","c">>, <<"s","p","o","t","i","f","y">>},
       {<<"c","a","l","c","u","l","a","t","o","r">>},
       {<<"o","p","e","n"," ","g","o","o","g","l","e">>},
       {<<"o","p","e","n"," ","y","o","u","t","u","b","e">>},
       {<<"o","p","e","n"," ","f","a","c","e","b","o","o","k">>},
       {<<"t","i","m","e">>},
       {<<"d","a","t","e">>},
       {<<"w","h","a","t"," ","i","s">>, <<"w","h","o"," ","i","s">>, <<"w","h","a","t"," ","a","r","e">>},
       {<<"w","i","k","i","p","e","d","i","a">>},
       {<<"w","e","a","t","h","e","r">>},
       {<<"h","e","l","p">>, <<"w","h","a","t"," ","c","a","n"," ","y","o","u"," ","d","o">>},
       {<<"s","t","o","p"," ","l","i","s","t","e","n","i","n","g">>, <<"s","t","o","p">>},
       {<<"m","u","t","e">>, <<"u","n","m","u","t","e">>} >>

Fallback == Len(RulePhrases) + 1

RuleHolds(k, m) == k = Fallback \/ \E w \in RulePhrases[k] : Contains(m, w)

\* the lowest-numbered rule that holds
FirstRule(m) ==
    LET holding == {k \in 1..Fallback : RuleHolds(k, m)}
    IN CHOOSE k \in holding : \A j \in holding : k <= j

RuleAction(k, m, c) ==
    CASE k = 1 -> greet(m, c)
      [] k = 2 -> displayMode(m, c)
      [] k = 3 -> music(m, c)
      [] k = 4 -> calculator(m, c)
      [] k = 5 -> openGoogle(m, c)
      [] k = 6 -> openYoutube(m, c)
      [] k = 7 -> openFacebook(m, c)
      [] k = 8 -> time(m, c)
      [] k = 9 -> date(m, c)
      [] k = 10 -> whatIs(m, c)
      [] k = 11 -> wikipedia(m, c)
      [] k = 12 -> weather(m, c)
      [] k = 13 -> help(m, c)
      [] k = 14 -> stop(m, c)
      [] k = 15 -> mute(m, c)
      [] OTHER -> fallback(m, c)

\* this step interpreted a finalized utterance
Interpreted == lastCmd'.turn = lastCmd.turn + 1

\* the reply to the last command is waiting in speak's delay
ReplyPending(text) ==
    \E i \in DOMAIN pendingSpeak :
        pendingSpeak[i].turn = lastCmd.turn /\ pendingSpeak[i].text.text = text

NoReply ==
    /\ \A i \in DOMAIN pendingSpeak : pendingSpeak[i].turn # lastCmd.turn
    /\ \A i \in DOMAIN history :
          history[i].type = "assistant" => history[i].turn # lastCmd.turn

\* C1: the calls handleCommand makes for a transcript are exactly those of
\* the lowest-numbered rule whose phrase occurs in it, or of the fallback
\* search when none does: one speak call, at most one window.open
C1_FirstMatchWins ==
    lastCmd.turn > 0 =>
        \E k \in {FirstRule(lastCmd.message)} :
            /\ lastCmd.calls = RuleAction(k, lastCmd.message, lastCmd.closure)
            /\ Len(lastCmd.calls.speaks) = 1
            /\ Len(lastCmd.calls.opens) <= 1
            /\ (k = Fallback =>
                   lastCmd.calls.opens =
                       <<Url("https://www.google.com/search?q=",
                             encodeURIComponent(lastCmd.message))>>)

\* a transcript with both "what is" and "time" spoke the time, opened nothing
C1_Witness ==
    /\ lastCmd.message = <<"w","h","a","t"," ","i","s"," ","t","i","m","e">>
    /\ lastCmd.calls.branch = "time"
    /\ lastCmd.calls.opens = <<>>
    /\ ReplyPending("The current time is ${time}")

NoGreeting(m) == \A w \in RulePhrases[1] : ~Contains(m, w)

\* C2 as stated: every transcript with "dark mode" performs the display-mode
\* action and sets isDarkMode to true, every transcript with "light mode"
\* performs it and sets isDarkMode to false
C2_Original ==
    [][Interpreted =>
          /\ Contains(lastCmd'.message, <<"d","a","r","k"," ","m","o","d","e">>) =>
                lastCmd'.calls.branch = "display mode" /\ isDarkMode' = TRUE
          /\ Contains(lastCmd'.message, <<"l","i","g","h","t"," ","m","o","d","e">>) =>
                lastCmd'.calls.branch = "display mode" /\ isDarkMode' = FALSE]_vars

\* C2 amended: of the transcripts with none of "hey", "hello", "hi" in them,
\* one with "dark mode" performs the display-mode action and sets isDarkMode
\* to true, one with "light mode" and without "dark mode" sets it to false
C2_DisplayMode ==
    [][Interpreted /\ NoGreeting(lastCmd'.message) =>
          /\ Contains(lastCmd'.message, <<"d","a","r","k"," ","m","o","d","e">>) =>
                lastCmd'.calls.branch = "display mode" /\ isDarkMode' = TRUE
          /\ (/\ Contains(lastCmd'.message, <<"l","i","g","h","t"," ","m","o","d","e">>)
              /\ ~Contains(lastCmd'.message, <<"d","a","r","k"," ","m","o","d","e">>)) =>
                lastCmd'.calls.branch = "display mode" /\ isDarkMode' = FALSE]_vars

\* a transcript with both phrases took the display-mode branch, to dark
C2_Witness ==
    /\ lastCmd.message = <<"l","i","g","h","t"," ","m","o","d","e"," ","d","a","r","k"," ","m","o","d","e">>
    /\ lastCmd.calls.branch = "display mode"
    /\ lastCmd.calls.darkMode = <<TRUE>>

\* C7: when the mute rule fires a reply is produced in both directions, and
\* it is "Sound enabled" when the flag goes from unmuted to muted, "Sound
\* disabled" when it goes from muted to unmuted
C7_Original ==
    lastCmd.calls.branch = "mute" =>
        /\ ~NoReply
        /\ (~lastCmd.wasMuted /\ lastCmd.nowMuted) =>
              lastCmd.calls.speaks[1].text = "Sound enabled"
        /\ (lastCmd.wasMuted /\ ~lastCmd.nowMuted) =>
              lastCmd.calls.speaks[1].text = "Sound disabled"

\* the mute rule took the flag from muted to unmuted, without a reply
C7_Witness ==
    /\ lastCmd.calls.branch = "mute"
    /\ lastCmd.wasMuted /\ ~lastCmd.nowMuted
    /\ ~isMuted
    /\ NoReply

WhatIsPhrases == RulePhrases[10]

\* q is s without the white space around it
Trimmed(s, q) ==
    /\ q # <<>> => q[1] \notin WhiteSpace /\ q[Len(q)] \notin WhiteSpace
    /\ \E a \in 0..Len(s) :
          /\ a + Len(q) <= Len(s)
          /\ \A i \in 1..Len(s) :
                IF i > a /\ i <= a + Len(q) THEN s[i] = q[i - a]
                ELSE s[i] \in WhiteSpace

\* C10: a transcript that reaches the what-is branch opens exactly one
\* search URL whose query is the encoding of the transcript with the first
\* occurrence of one of the phrases removed and the white space around the
\* rest trimmed, and the reply names that same query
C10_WhatIsQuery ==
    lastCmd.calls.branch = "what is" =>
        LET m == lastCmd.message
            q == lastCmd.calls.speaks[1].arg
        IN /\ Len(lastCmd.calls.opens) = 1
           /\ Len(lastCmd.calls.speaks) = 1
           /\ lastCmd.calls.opens[1] =
                  Url("https://www.google.com/search?q=", encodeURIComponent(q))
           /\ \E i \in 1..Len(m), w \in WhatIsPhrases :
                 /\ \A j \in 1..Len(w) : i + j - 1 <= Len(m) /\ m[i + j - 1] = w[j]
                 /\ \A k \in 1..(i - 1), v \in WhatIsPhrases : ~matchesAt(m, v, k)
                 /\ Trimmed(SubSeq(m, 1, i - 1) \o SubSeq(m, i + Len(w), Len(m)), q)

\* "what is the capital of france" asked for "the capital of france"
C10_Witness ==
    /\ lastCmd.message = <<"w","h","a","t"," ","i","s"," ","t","h","e"," ","c","a","p","i","t","a","l"," ","o","f"," ","f","r","a","n","c","e">>
    /\ lastCmd.calls.branch = "what is"
    /\ lastCmd.calls.speaks[1].arg = <<"t","h","e"," ","c","a","p","i","t","a","l"," ","o","f"," ","f","r","a","n","c","e">>
    /\ lastCmd.calls.opens[1].arg = <<"t","h","e","%","2","0","c","a","p","i","t","a","l","%","2","0","o","f","%","2","0","f","r","a","n","c","e">>


(***************************************************************************)
(* The claims about the history log, under SpecHistory and SpecDialogue.   *)
(***************************************************************************)
Entries(type) == {i \in DOMAIN history : history[i].type = type}

\* the texts spoken outside any utterance
Announcements ==
    {"Initializing Advanced Virtual Assistant",
     "Good Morning! I'm your virtual assistant. How may I help you today?",
     "Good Afternoon! I'm your virtual assistant. How may I help you today?",
     "Good Evening! I'm your virtual assistant. How may I help you today?",
     "Please grant microphone permission to use voice commands"}

\* C3 as stated: with N utterances interpreted the log has exactly N user
\* entries and at most N assistant entries, and the timestamps do not
\* decrease along the log
C3_Original ==
    /\ Cardinality(Entries("user")) = turns
    /\ Cardinality(Entries("assistant")) <= turns
    /\ \A i, j \in DOMAIN history :
          i < j => history[i].timestamp <= history[j].timestamp

\* C3 amended: with N utterances interpreted the log has exactly N user
\* entries, one per utterance and in their order, and at most one assistant
\* entry in reply to each utterance; every other assistant entry is a
\* start-up announcement, a greeting or the permission prompt, and their
\* number is not bounded by N; the entries are in the order of the instants
\* they were logged at, and the time-of-day timestamps of two entries logged
\* on the same day do not decrease
C3_History ==
    /\ Cardinality(Entries("user")) = turns
    /\ \A i, j \in Entries("user") : i < j => history[i].turn < history[j].turn
    /\ \A i \in Entries("user") : history[i].turn \in 1..turns
    /\ \A i, j \in Entries("assistant") :
          (history[i].turn > 0 /\ history[i].turn = history[j].turn) => i = j
    /\ \A i \in Entries("assistant") :
          /\ history[i].turn \in 0..turns
          /\ history[i].turn = 0 => history[i].message.text \in Announcements
    /\ \A i, j \in DOMAIN history :
          i < j =>
             /\ history[i].at <= history[j].at
             /\ (history[i].at \div SecondsPerDay = history[j].at \div SecondsPerDay) =>
                   history[i].timestamp <= history[j].timestamp

\* an utterance has been answered in a log with more assistant entries than
\* utterances, logged across midnight
C3_Witness ==
    /\ turns >= 1
    /\ Cardinality(Entries("assistant")) > turns
    /\ \E i \in Entries("assistant") : history[i].turn = turns
    /\ \E i, j \in DOMAIN history :
          i < j /\ history[i].timestamp > history[j].timestamp

IsPrefix(p, q) == Len(p) <= Len(q) /\ SubSeq(q, 1, Len(p)) = p

\* every reply in the log comes after the user entry of its utterance
UserFirst ==
    \A j \in Entries("assistant") :
        history[j].turn > 0 =>
            \E i \in Entries("user") : i < j /\ history[i].turn = history[j].turn

\* C4: every step leaves the log a prefix of the new log, and the user entry
\* of an utterance comes before the assistant entry that answers it
C4_AppendOnly ==
    [][IsPrefix(history, history') /\ UserFirst']_vars

\* the reply to the first utterance was logged after the second utterance
C4_Witness ==
    \E i, j, k \in DOMAIN history :
        /\ i < j /\ j < k
        /\ history[i].type = "user" /\ history[i].turn = 1
        /\ history[j].type = "user" /\ history[j].turn = 2
        /\ history[k].type = "assistant" /\ history[k].turn = 1

(***************************************************************************)
(* The claims about the sessions and the mute flag, under SpecDialogue.    *)
(***************************************************************************)
\* the recognition sessions that have started and not ended
ActiveSessions == {r \in DOMAIN recs : recs[r].on}

\* the utterances being played: the synthesis engine plays the first of its
\* queue
ActiveUtterances == {i \in DOMAIN synthQueue : i = 1}

\* C5: at most one recognition session and at most one synthesis utterance
\* are active at any time
C5_OneSession ==
    /\ Cardinality(ActiveSessions) <= 1
    /\ Cardinality(ActiveUtterances) <= 1

\* C6: two invocations of the mute rule in succession, the flag untouched
\* between them, leave isMuted at the value it had before the first
C6_MuteTwice ==
    [][(/\ Interpreted
        /\ lastCmd.calls.branch = "mute"
        /\ lastCmd'.calls.branch = "mute"
        /\ isMuted = lastCmd.nowMuted)
          => isMuted' = lastCmd.wasMuted]_vars

(***************************************************************************)
(* The claims about the permission and the failures, under SpecPermission. *)
(***************************************************************************)
\* nothing is under way: no session, no speech, no permission request
Quiet ==
    /\ permCheck # "pending"
    /\ permRequests = 0
    /\ \A r \in DOMAIN recs : recs[r].phase = "idle"
    /\ pendingSpeak = <<>> /\ synthQueue = <<>> /\ cancelled = 0

\* C8: in the idle state reached after a failure (isListening and
\* isProcessing false), the listening control starts recognition or requests
\* the permission again
C8_Retryable ==
    (Quiet /\ ~isListening /\ ~isProcessing) =>
        toggleDid(State) \in {"start", "request"}

\* C9: a recognition object is started only while micPermission is
\* "granted", and toggleListening with micPermission "denied" requests the
\* permission again and starts or stops no recognition
C9_StartOnlyGranted ==
    [][/\ \A r \in DOMAIN recs :
             (recs[r].phase = "idle" /\ recs'[r].phase = "starting") =>
                 micPermission = "granted"
       /\ (ToggleListening /\ toggleDid(State) \in {"start", "throw"}) =>
             micPermission = "granted"
       /\ (ToggleListening /\ micPermission = "denied") =>
             /\ permRequests' = permRequests + 1
             /\ recs' = recs]_vars

\* toggleListening has prompted for the permission, lost to a "not-allowed"
\* error, with the recognition object still there and not started
C9_Witness ==
    /\ micPermission = "denied"
    /\ recognition # 0
    /\ prompts > 0
    /\ permRequests > 0
    /\ \A r \in DOMAIN recs : recs[r].phase = "idle"

(***************************************************************************)
(* The claims about speech while muted and about isProcessing, under       *)
(* SpecDialogue.                                                           *)
(***************************************************************************)
\* this step called speechSynthesis.speak
UtteranceStarted == Len(synthQueue') > Len(synthQueue)

\* this step appended an assistant entry to the log
AssistantLogged ==
    /\ Len(history') > Len(history)
    /\ history'[Len(history')].type = "assistant"

\* C11: while the mute flag is set no utterance is started and no assistant
\* entry is appended to the history
C11_SilentWhileMuted ==
    [][isMuted => ~UtteranceStarted /\ ~AssistantLogged]_vars

\* an utterance was started and logged, while muted, in reply to a command
\* heard by a session whose handlers captured the flag before the click
C11_Witness ==
    /\ isMuted
    /\ lastCmd.turn > 0
    /\ lastCmd.wasMuted /\ ~lastCmd.closure.isMuted
    /\ \E i \in DOMAIN synthQueue : synthQueue[i].turn = lastCmd.turn
    /\ history # <<>>
    /\ history[Len(history)].type = "assistant"
    /\ history[Len(history)].turn = lastCmd.turn

\* a speak call is in its delay, or its utterance is queued or playing
Outstanding == pendingSpeak # <<>> \/ synthQueue # <<>>

\* every utterance has fired its end or error event
AllFired == ~Outstanding /\ cancelled = 0

\* C12: isProcessing is true whenever a speak call is pending or its
\* utterance is queued or playing, and it is false once every started
\* utterance has fired its end or error event
C12_Processing ==
    /\ Outstanding => isProcessing
    /\ AllFired => ~isProcessing

\* the second half of C12 alone
C12_ClearedAtEnd == AllFired => ~isProcessing

\* the microphone control is enabled while an utterance is still to be played
C12_Witness ==
    /\ ~isProcessing
    /\ synthQueue # <<>>
    /\ \E i \in DOMAIN history : history[i].type = "assistant"

=============================================================================
